---- MODULE Spec2Model ----
(***************************************************************************)
(* A model of pysph's ParticleArray (pysph/base/particle_array.pyx): a     *)
(* columnar particle store with named property columns, temporary columns, *)
(* recorded per-property defaults and a dirty flag.                        *)
(*                                                                         *)
(* Numbers: every value counts halves, so 3 stands for 1.5 and 2 for 1.0.  *)
(* A double or float column stores any such value unchanged, a long or int *)
(* column stores it truncated towards zero (numpy's cast on assignment).   *)
(***************************************************************************)
EXTENDS Integers, Sequences, FiniteSets, TLC

\* ---------------------------------------------------------------- bounds
\* Longest column the model lets the store grow to.
MaxLen == 2

\* The constructor's default_particle_tag argument: 1.
DefaultTags == {2}

\* Tags a caller asks remove_tagged_particles to remove: 0 and 1.
TagValues == {0, 2}

\* ------------------------------------------------------------- utilities
\* All orders in which a dict with key set S may be iterated.
Perms(S) ==
  {p \in [1..Cardinality(S) -> S] : \A i, j \in 1..Cardinality(S) : i # j => p[i] # p[j]}

\* dict.get(key): the value, or None, which the model writes as <<>> / "None".
Has(d, k) == k \in DOMAIN d

\* d[k] = v on a dict d.
Put(d, k, v) == [n \in DOMAIN d \cup {k} |-> IF n = k THEN v ELSE d[n]]

\* numpy.sort: ascending order.
RECURSIVE Insert(_, _)
Insert(v, s) ==
  IF s = <<>> THEN <<v>>
  ELSE IF v <= Head(s) THEN <<v>> \o s
  ELSE <<Head(s)>> \o Insert(v, Tail(s))

RECURSIVE numpy_sort(_)
numpy_sort(s) == IF s = <<>> THEN <<>> ELSE Insert(Head(s), numpy_sort(Tail(s)))

\* ------------------------------------------------- columns (pysph.base.carray)
\* numpy's cast of a value on assignment into an array of the given type.
Cast(type, v) ==
  IF type \in {"long", "int"}
  THEN (IF v >= 0 THEN (v \div 2) * 2 ELSE -(((-v) \div 2) * 2))
  ELSE v

\* numpy.asarray(data, dtype=...)
asarray(data, type) == [i \in 1..Len(data) |-> Cast(type, data[i])]

\* LongArray(n), DoubleArray(n), ...: a column of n zero slots.
carray(type, size) == [type |-> type, data |-> [i \in 1..size |-> 0]]

\* BaseArray.resize: truncate, or extend with zero slots.
resize(arr, size) ==
  [arr EXCEPT !.data = [i \in 1..size |-> IF i <= Len(arr.data) THEN arr.data[i] ELSE 0]]

\* BaseArray.extend: append the values.
extend_carray(arr, values) ==
  [arr EXCEPT !.data = arr.data \o asarray(values, arr.type)]

\* BaseArray.set_data accepts an array of the column's own length only.
set_data_ok(arr, nparr) == Len(nparr) = Len(arr.data)

set_data(arr, nparr) == [arr EXCEPT !.data = asarray(nparr, arr.type)]

\* arr.get_npy_array()[start:] = value
fill_from(arr, start, value) ==
  [arr EXCEPT !.data =
     [i \in 1..Len(arr.data) |-> IF i > start THEN Cast(arr.type, value) ELSE arr.data[i]]]

\* BaseArray.remove(sorted_indices, 1): for each index, taken from the largest
\* down, move the tail element into the slot and shrink by one.
RECURSIVE remove_loop(_, _, _)
remove_loop(data, sorted_indices, i) ==
  IF i = 0 THEN data
  ELSE LET id == sorted_indices[i]
           n  == Len(data)
       IN  IF id >= 0 /\ id < n
           THEN remove_loop(
                  [k \in 1..(n - 1) |-> IF k = id + 1 THEN data[n] ELSE data[k]],
                  sorted_indices, i - 1)
           ELSE remove_loop(data, sorted_indices, i - 1)

remove(arr, sorted_indices) ==
  IF Len(sorted_indices) > Len(arr.data) THEN arr
  ELSE [arr EXCEPT !.data = remove_loop(arr.data, sorted_indices, Len(sorted_indices))]

\* ------------------------------------------------------------------ state
VARIABLES
  properties,        \* self.properties: name -> column
  default_values,    \* self.default_values: name -> recorded default
  temporary_arrays,  \* self.temporary_arrays: name -> column
  is_dirty,          \* self.is_dirty
  last               \* the last call: its name, the exception it raised, and
                     \* for add_property whether it came without data and
                     \* whether it named a property not yet registered, for
                     \* initialize whether it came with data for 'tag'
                     \* and that data
VARIABLES
  func,              \* an evaluator object: its variant, class, coefficients,
                     \* output dimension, options and the points _src, _dst
  accumulator,       \* the array nr the evaluator is handed and adds to
  ev                 \* the evaluation made last: its arguments, the dot
                     \* product, viscous term, gradient and coefficient it
                     \* computed, and the number of evaluations so far

VARIABLES
  pass               \* a pass of several workers over the destinations with
                     \* the one evaluator func: where each worker is in its
                     \* neighbor loop, the outputs so far, and which worker
                     \* has written which shared location

vars == <<properties, default_values, temporary_arrays, is_dirty, last, func, accumulator, ev, pass>>

\* The object's fields as one record, the form the method operators work on.
Self ==
  [properties |-> properties, default_values |-> default_values,
   temporary_arrays |-> temporary_arrays, is_dirty |-> is_dirty]

\* The outcome of a call: the fields it leaves and the exception it raised,
\* written with its message where the code gives one.
Return(s) == [store |-> s, raised |-> "none"]
Raise(s, e) == [store |-> s, raised |-> e]

\* ParticleArray.get_number_of_particles: the length of the first column in
\* the dict's iteration order, which the language leaves unspecified; the
\* result is any registered column's length.
get_number_of_particles(s) ==
  {Len(s.properties[p].data) : p \in DOMAIN s.properties}

\* ParticleArray.__cinit__
cinit(default_particle_tag) ==
  [properties |-> [n \in {"tag"} |-> carray("long", 0)],
   default_values |-> [n \in {"tag"} |-> default_particle_tag],
   temporary_arrays |-> [n \in {} |-> carray("double", 0)],
   is_dirty |-> TRUE]

\* ---------------------------------------------------------------- methods
\* self.properties[name] = arr
register(s, name, arr) == [s EXCEPT !.properties = Put(@, name, arr)]

\* ParticleArray.set_dirty
set_dirty(s, value) == [s EXCEPT !.is_dirty = value]

\* clear, were it to empty the columns and keep them registered.
clear_keeping_properties(s) ==
  [s EXCEPT !.properties = [n \in DOMAIN s.properties |-> resize(s.properties[n], 0)],
            !.temporary_arrays = [n \in {} |-> carray("double", 0)],
            !.is_dirty = TRUE]

\* clear, were it to register 'tag' as a double column.
clear_double_tag(s) ==
  [s EXCEPT !.properties = [n \in {"tag"} |-> carray("double", 0)],
            !.temporary_arrays = [n \in {} |-> carray("double", 0)],
            !.is_dirty = TRUE]

\* ParticleArray.clear
clear(s) ==
  [s EXCEPT !.properties = [n \in {"tag"} |-> carray("long", 0)],
            !.temporary_arrays = [n \in {} |-> carray("double", 0)],
            !.is_dirty = TRUE]

\* _create_carray, were it to leave out the fill with the default.
create_carray_unfilled(data_type, size, default) ==
  carray(IF data_type = "None" THEN "double" ELSE data_type, size)

\* ParticleArray._create_carray for the types it knows ("None" is None).
create_carray(data_type, size, default) ==
  LET type == IF data_type = "None" THEN "double" ELSE data_type
  IN  fill_from(carray(type, size), 0, default)

\* ParticleArray._create_c_array_from_npy_array on a double array.
create_c_array_from_npy_array(np_array) ==
  set_data(carray("double", Len(np_array)), np_array)

\* prop_info.get(key) of add_property, None written as "None" / <<>> / 0.
info_name(prop_info) == IF Has(prop_info, "name") THEN prop_info.name ELSE "None"
info_type(prop_info) == IF Has(prop_info, "type") THEN prop_info.type ELSE "None"
info_data(prop_info) == IF Has(prop_info, "data") THEN prop_info.data ELSE <<>>

\* add_property: "if default is None: default = 0".
info_default(prop_info) == IF Has(prop_info, "default") THEN prop_info.default ELSE 0

\* add_property: "data is None or len(data) == 0".
no_data(prop_info) == Len(info_data(prop_info)) = 0

\* The array_size_proper test, were it to accept data longer than the count.
array_size_proper_lenient(prop_info, np) ==
  no_data(prop_info) \/ np = 0 \/ np <= Len(info_data(prop_info))

\* add_property: the array_size_proper test, np the particle count it read.
array_size_proper(prop_info, np) ==
  no_data(prop_info) \/ np = 0 \/ np = Len(info_data(prop_info))

\* add_property on an empty store with data: every registered property is
\* resized to len(data) and filled with its recorded default.
resize_to_data(s, size) ==
  [s EXCEPT !.properties =
     [p \in DOMAIN s.properties |->
        fill_from(resize(s.properties[p], size), 0, s.default_values[p])]]

\* add_property on an empty store with data, after the resize: the new column.
\* With a type given the statement "arr.get_npy_array[:] = ..." indexes the
\* bound method instead of calling it, which raises TypeError.
attach_to_empty(s, prop_info) ==
  IF info_type(prop_info) = "None"
  THEN Return(register(s, info_name(prop_info),
                create_c_array_from_npy_array(asarray(info_data(prop_info), "double"))))
  ELSE Raise(s, "TypeError")

\* add_property on a populated store with data of the right length.
attach_to_populated(s, prop_info) ==
  IF info_type(prop_info) = "None"
  THEN Return(register(s, info_name(prop_info),
                create_c_array_from_npy_array(asarray(info_data(prop_info), "double"))))
  ELSE Return(register(s, info_name(prop_info),
                set_data(create_carray(info_type(prop_info), Len(info_data(prop_info)),
                                       info_default(prop_info)),
                         info_data(prop_info))))

\* add_property: "if self.properties.has_key(prop_name): ... return".
already_present(s, prop_name) == prop_name \in DOMAIN s.properties

\* ParticleArray.add_property, np the value get_number_of_particles returns.
add_property(s, prop_info, np) ==
  IF ~Has(prop_info, "name") THEN Raise(s, "ValueError")
  ELSE IF already_present(s, info_name(prop_info)) THEN Return(s)
  ELSE IF ~array_size_proper(prop_info, np)
  THEN Raise(s, "ValueError: Array sizes incompatible")
  ELSE LET s1 == [s EXCEPT !.default_values =
                              Put(@, info_name(prop_info), info_default(prop_info))]
       IN  IF np = 0
           THEN IF no_data(prop_info)
                THEN Return(register(s1, info_name(prop_info),
                              create_carray(info_type(prop_info), 0, info_default(prop_info))))
                ELSE attach_to_empty(resize_to_data(s1, Len(info_data(prop_info))), prop_info)
           ELSE IF no_data(prop_info)
                THEN Return(register(s1, info_name(prop_info),
                              create_carray(info_type(prop_info), np, info_default(prop_info))))
                ELSE attach_to_populated(s1, prop_info)

\* add_property with every particle count the dict order can make it read.
add_property_outcomes(s, prop_info) ==
  {add_property(s, prop_info, np) : np \in get_number_of_particles(s)}

\* The 'tag' entry of props, were initialize to ignore it.
install_tag_ignored(s, props) == s

\* initialize: the 'tag' entry of props, installed first.
install_tag(s, props) ==
  IF Has(props, "tag")
  THEN LET a == asarray(props["tag"].data, "long")
       IN  register(s, "tag", set_data(resize(s.properties["tag"], Len(a)), a))
  ELSE s

\* initialize: the loop over props.keys(), in the order given; it stops at
\* the first call that raises.
RECURSIVE add_all(_, _, _)
add_all(outs, props, order) ==
  IF order = <<>> THEN outs
  ELSE add_all(
         UNION {IF o.raised # "none" THEN {o}
                ELSE IF already_present(o.store, Head(order))
                     THEN {Raise(o.store, "ValueError: property already exists")}
                     ELSE add_property_outcomes(o.store,
                            Put(props[Head(order)], "name", Head(order)))
                : o \in outs},
         props, Tail(order))

\* initialize: the closing backfill of 'tag' with the default tag.
backfill_tag(s, tag_present) ==
  {IF ~tag_present /\ np > 0
   THEN register(s, "tag",
          fill_from(resize(s.properties["tag"], np), 0, s.default_values["tag"]))
   ELSE s
   : np \in get_number_of_particles(s)}

\* ParticleArray.initialize: every outcome, over the orders of props.keys().
initialize(s, props) ==
  IF DOMAIN props = {} THEN {Return(clear(s))}
  ELSE UNION {
         UNION {IF o.raised # "none" THEN {o}
                ELSE {Return(t) : t \in backfill_tag(o.store, Has(props, "tag"))}
                : o \in add_all({Return(install_tag(clear(s), props))}, props, order)}
         : order \in Perms(DOMAIN props \ {"tag"})}

\* add_temporary_array, were it to register the array whatever the name.
add_temporary_array_unchecked(s, arr_name, np) ==
  Return([s EXCEPT !.temporary_arrays = Put(@, arr_name, carray("double", np))])

\* ParticleArray.add_temporary_array, np the particle count it reads.
add_temporary_array(s, arr_name, np) ==
  IF arr_name \in DOMAIN s.properties THEN Raise(s, "ValueError: property exists")
  ELSE IF arr_name \notin DOMAIN s.temporary_arrays
       THEN Return([s EXCEPT !.temporary_arrays = Put(@, arr_name, carray("double", np))])
       ELSE Return(s)

\* The test of remove_particles, were it off by one.
too_many_indices_off_by_one(index_list, np) == Len(index_list) > np + 1

\* remove_particles: "if index_list.length > self.get_number_of_particles()".
too_many_indices(index_list, np) == Len(index_list) > np

\* remove_particles: array.remove(sorted_indices, 1) on every property array
\* and every temporary array.
remove_from_all(s, sorted_indices) ==
  [s EXCEPT !.properties =
              [p \in DOMAIN s.properties |-> remove(s.properties[p], sorted_indices)],
            !.temporary_arrays =
              [p \in DOMAIN s.temporary_arrays |->
                 remove(s.temporary_arrays[p], sorted_indices)]]

\* ParticleArray.remove_particles, np the particle count it reads.
remove_particles(s, index_list, np) ==
  IF too_many_indices(index_list, np)
  THEN Raise(s, "ValueError: Number of particles to be removed is greater")
  ELSE Return([remove_from_all(s, numpy_sort(index_list)) EXCEPT !.is_dirty = TRUE])

\* remove_tagged_particles: the indices (from 0, ascending) of the particles
\* carrying the tag.
RECURSIVE tagged_indices(_, _, _)
tagged_indices(tag_data, tag, i) ==
  IF i > Len(tag_data) THEN <<>>
  ELSE (IF tag_data[i] = tag THEN <<i - 1>> ELSE <<>>) \o tagged_indices(tag_data, tag, i + 1)

\* ParticleArray.remove_tagged_particles, np the particle count that
\* remove_particles reads.
remove_tagged_particles(s, tag, np) ==
  LET indices == tagged_indices(s.properties["tag"].data, tag, 1)
      o == remove_particles(s, indices, np)
  IN  IF o.raised # "none" THEN o
      ELSE IF Len(indices) > 0 THEN Return([o.store EXCEPT !.is_dirty = TRUE])
      ELSE o

\* _check_property, were it to accept every name.
check_property_any_name(s, prop) == TRUE

\* ParticleArray._check_property
check_property(s, prop) ==
  prop \in DOMAIN s.temporary_arrays \/ prop \in DOMAIN s.properties

\* add_particles: the loop over self.properties.
append_or_backfill(s, particle_props, old_num_particles, new_num_particles) ==
  [p \in DOMAIN s.properties |->
     IF p \in DOMAIN particle_props
     THEN extend_carray(s.properties[p], particle_props[p])
     ELSE fill_from(resize(s.properties[p], new_num_particles),
                    old_num_particles, s.default_values[p])]

\* ParticleArray.add_particles; num_extra_particles is the length of the first
\* batch in the dict's order, old_num_particles the particle count it reads.
add_particles(s, particle_props, num_extra_particles, old_num_particles) ==
  IF DOMAIN particle_props = {} THEN Return(s)
  ELSE IF \E prop \in DOMAIN particle_props : ~check_property(s, prop)
  THEN Raise(s, "AttributeError")
  ELSE LET new_num_particles == num_extra_particles + old_num_particles
       IN  Return(
             [s EXCEPT
                !.properties = append_or_backfill(s, particle_props,
                                                  old_num_particles, new_num_particles),
                !.temporary_arrays =
                   [p \in DOMAIN s.temporary_arrays |->
                      resize(s.temporary_arrays[p], new_num_particles)],
                !.is_dirty = IF num_extra_particles > 0 THEN TRUE ELSE s.is_dirty])

\* ParticleArray.extend, old_size the particle count it reads.
extend(s, num_particles, old_size) ==
  IF num_particles <= 0 THEN Return(s)
  ELSE LET new_size == old_size + num_particles
       IN  Return(
             [s EXCEPT
                !.properties =
                   [p \in DOMAIN s.properties |->
                      fill_from(resize(s.properties[p], new_size), old_size,
                                s.default_values[p])],
                !.temporary_arrays =
                   [p \in DOMAIN s.temporary_arrays |->
                      resize(s.temporary_arrays[p], new_size)]])

\* ParticleArray.get: the arrays asked for, one array for one name, a tuple
\* of arrays otherwise; the store is left as it is.
get(s, args) ==
  IF Len(args) = 0 THEN [store |-> s, raised |-> "none", result |-> "None"]
  ELSE IF \E i \in DOMAIN args : ~check_property(s, args[i])
  THEN Raise(s, "AttributeError")
  ELSE LET result ==
             [i \in DOMAIN args |->
                IF args[i] \in DOMAIN s.properties
                THEN s.properties[args[i]].data
                ELSE s.temporary_arrays[args[i]].data]
       IN  [store |-> s, raised |-> "none",
            result |-> IF Len(args) = 1 THEN result[1] ELSE result]

\* set: the second loop, over props.keys() in the order given; a column that
\* refuses the data raises and ends the call.
RECURSIVE set_all(_, _, _)
set_all(s, props, order) ==
  IF order = <<>> THEN Return(s)
  ELSE LET prop == Head(order)
       IN  IF prop \in DOMAIN s.properties
           THEN IF set_data_ok(s.properties[prop], props[prop])
                THEN set_all([s EXCEPT !.properties[prop] = set_data(@, props[prop])],
                             props, Tail(order))
                ELSE Raise(s, "ValueError: array size mismatch")
           ELSE IF prop \in DOMAIN s.temporary_arrays
           THEN IF set_data_ok(s.temporary_arrays[prop], props[prop])
                THEN set_all([s EXCEPT !.temporary_arrays[prop] = set_data(@, props[prop])],
                             props, Tail(order))
                ELSE Raise(s, "ValueError: array size mismatch")
           ELSE set_all(s, props, Tail(order))

\* ParticleArray.set, order the order of props.keys().
set(s, props, order) ==
  IF \E prop \in DOMAIN props : ~check_property(s, prop)
  THEN Raise(s, "AttributeError")
  ELSE set_all(s, props, order)

\* ----------------------------------------------------------- call arguments
\* The empty dict.
EmptyDict == [k \in {} |-> 0]

\* const(n, v): the array of n slots holding v.
const(n, v) == [i \in 1..n |-> v]

\* Data arrays a caller supplies, of every length up to the bound: 1.5 in
\* every slot.
Arrays == {const(n, 3) : n \in 0..MaxLen}

\* prop_info dicts of add_property: data without a type, a name alone, a
\* default, a type, a type with data, a registered name, no name.
PropInfos ==
  {[name |-> "x", data |-> a] : a \in Arrays}
    \cup {[name |-> "y", type |-> "long", default |-> 3, data |-> a] : a \in Arrays \ {<<>>}}
    \cup {[name |-> "x"], [name |-> "y", default |-> 3],
          [name |-> "y", type |-> "long", default |-> 3],
          [name |-> "tag", default |-> 3], [data |-> <<3>>]}

\* props of initialize: nothing, data with and without 'tag', 'tag' without
\* an entry, 'tag' of another length than the data, a property without data,
\* a typed property.
InitProps ==
  {EmptyDict,
   [x |-> [data |-> <<3>>]],
   [tag |-> [data |-> <<>>], x |-> [data |-> <<3>>]],
   [tag |-> [data |-> <<1>>], x |-> [data |-> <<3>>]],
   [tag |-> [data |-> <<3, 3>>], x |-> [data |-> <<3>>]],
   [tag |-> [data |-> <<3>>], y |-> [default |-> 3]],
   [x |-> [data |-> <<>>], y |-> [default |-> 3]],
   [x |-> [data |-> <<3>>], y |-> [type |-> "long", default |-> 3, data |-> <<3>>]]}

\* particle_props of add_particles and props of set: one batch, two batches
\* of one length, two of different lengths, a name never registered next to
\* one that may be.
Batches ==
  {EmptyDict, [x |-> <<3>>, y |-> <<3>>], [x |-> <<3>>, z |-> <<3>>],
   [tag |-> <<3>>, x |-> <<3, 3>>]}
    \cup {[x |-> a] : a \in Arrays \ {<<>>}}

\* Index lists of remove_particles: any order, duplicates and indices past
\* the end included.
IndexLists == UNION {[1..k -> 0..(MaxLen - 1)] : k \in 0..2}

\* Name lists of get: none, one name, a name never registered after one that
\* may be, two names.
GetArgs == {<<>>, <<"x">>, <<"x", "z">>, <<"tag", "y">>}

\* Names add_temporary_array is called with.
TempNames == {"tag", "y"}

\* ------------------------------------------------ exact arithmetic (double)
\* The evaluators compute in C doubles.  The model computes the same
\* expressions exactly, on fractions <<numerator, denominator>> in lowest
\* terms with a positive denominator; no input makes a denominator zero.
GCD[a \in Nat, b \in Nat] == IF b = 0 THEN a ELSE GCD[b, a % b]

Abs[n \in Int] == IF n < 0 THEN -n ELSE n

Q[n \in Int, d \in Int] ==
  LET g == GCD[Abs[n], Abs[d]]
  IN  IF d > 0 THEN <<n \div g, d \div g>> ELSE <<(-n) \div g, (-d) \div g>>

\* The fractions, and the whole number n as one.
Fractions == Int \X Int
R(n) == <<n, 1>>

RAdd[a \in Fractions, b \in Fractions] == Q[a[1] * b[2] + b[1] * a[2], a[2] * b[2]]
RNeg[a \in Fractions] == <<-a[1], a[2]>>
RSub[a \in Fractions, b \in Fractions] == RAdd[a, RNeg[b]]
RMul[a \in Fractions, b \in Fractions] == Q[a[1] * b[1], a[2] * b[2]]
RDiv[a \in Fractions, b \in Fractions] == Q[a[1] * b[2], a[2] * b[1]]
RLess[a \in Fractions, b \in Fractions] == a[1] * b[2] < b[1] * a[2]
Half == <<1, 2>>

\* math.h sqrt, on the squares of fractions (the inputs produce no other).
sqrt[a \in Fractions] ==
  <<CHOOSE k \in 0..a[1] : k * k = a[1], CHOOSE k \in 1..a[2] : k * k = a[2]>>

\* ------------------------------------------------ points (pysph.base.point)
Points == [x : Fractions, y : Fractions, z : Fractions]
Point(x, y, z) == [x |-> x, y |-> y, z |-> z]
Point_sub[pa \in Points, pb \in Points] ==
  Point(RSub[pa.x, pb.x], RSub[pa.y, pb.y], RSub[pa.z, pb.z])
cPoint_dot[pa \in Points, pb \in Points] ==
  RAdd[RAdd[RMul[pa.x, pb.x], RMul[pa.y, pb.y]], RMul[pa.z, pb.z]]

\* cPoint_norm / Point.norm: the square of the Euclidean length.
cPoint_norm[p \in Points] == cPoint_dot[p, p]

\* The point scaled by a number.
scaled[p \in Points, c \in Fractions] == Point(RMul[c, p.x], RMul[c, p.y], RMul[c, p.z])

\* --------------------------------------- what an evaluation reads, external
\* KernelBase.gradient(dst, src, h) of the kernels an evaluation is given:
\* (dst - src) / h^2, and (src - dst) * h.
Kernels == {"inverse_square", "linear"}

gradient(kernel, pa, pb, h) ==
  IF kernel = "inverse_square"
  THEN scaled[Point_sub[pa, pb], RDiv[R(1), RMul[h, h]]]
  ELSE scaled[Point_sub[pb, pa], h]

\* The source and destination particle arrays: the columns the evaluators
\* read, s_x ... s_cs and d_x ... d_cs, particle ids counting from 0.
source ==
  [x |-> <<R(0), R(1)>>, y |-> <<R(0), R(0)>>, z |-> <<R(0), R(0)>>,
   h |-> <<R(1), R(3)>>, m |-> <<R(2), R(1)>>, rho |-> <<R(1), R(2)>>,
   p |-> <<R(1), R(8)>>, u |-> <<R(0), R(1)>>, v |-> <<R(0), R(0)>>,
   w |-> <<R(0), R(0)>>, cs |-> <<R(1), R(2)>>]

dest ==
  [x |-> <<R(1), R(2)>>, y |-> <<R(1), R(0)>>, z |-> <<R(0), R(1)>>,
   h |-> <<R(1), R(1)>>, rho |-> <<R(1), R(2)>>, p |-> <<R(1), R(2)>>,
   u |-> <<R(1), R(-1)>>, v |-> <<R(0), R(0)>>, w |-> <<R(0), R(0)>>,
   cs |-> <<R(1), R(3)>>, bl |-> <<R(2), R(3)>>]

\* column.data[pid]
data(column, pid) == column[pid + 1]

source_pids == {i - 1 : i \in DOMAIN source.m}
dest_pids == {i - 1 : i \in DOMAIN dest.rho}

\* SPHFunctionParticle.bonnet_and_lok_gradient_correction(dest_pid, &grad):
\* the gradient corrected with the destination particle's correction, here a
\* factor the destination array holds per particle.
bonnet_and_lok_gradient_correction(dest_pid, grad) ==
  scaled[grad, data(dest.bl, dest_pid)]

\* --------------------------------------------------------------- evaluators
\* The two variants of the evaluators: pressure_funcs.pyx with eval, and the
\* later one with eval_nbr, an output dimension and the options hks and
\* bonnet_and_lok_correction of SPHFunctionParticle.
Impls == {"eval", "eval_nbr"}

Origin == Point(R(0), R(0), R(0))

\* SPHPressureGradient.__init__ of either variant; the first takes no dim
\* and no options.
SPHPressureGradient_init(impl, dim, hks, bonnet_and_lok_correction) ==
  [impl |-> impl, id |-> "pgrad",
   kwargs |-> [alpha |-> R(0), beta |-> R(0), eta |-> R(0)],
   alpha |-> R(0), beta |-> R(0), gamma |-> R(0), eta |-> R(0), sound_speed |-> R(0),
   num_outputs |-> IF impl = "eval" THEN 3 ELSE dim,
   hks |-> impl = "eval_nbr" /\ hks,
   bonnet_and_lok_correction |-> impl = "eval_nbr" /\ bonnet_and_lok_correction,
   _src |-> Origin, _dst |-> Origin]

\* MomentumEquation.__init__ of either variant.  The first stores alpha,
\* beta, gamma and sound_speed and leaves self.eta as the object was
\* allocated, 0.0; the second stores alpha, beta, gamma and eta.  kwargs
\* keeps the arguments alpha, beta and eta the constructor was called with.
MomentumEquation_init(impl, alpha, beta, gamma, eta, sound_speed, dim, hks, bonnet_and_lok_correction) ==
  [impl |-> impl, id |-> "momentumequation",
   kwargs |-> [alpha |-> alpha, beta |-> beta, eta |-> eta],
   alpha |-> alpha, beta |-> beta, gamma |-> gamma,
   eta |-> IF impl = "eval" THEN R(0) ELSE eta,
   sound_speed |-> IF impl = "eval" THEN sound_speed ELSE R(0),
   num_outputs |-> IF impl = "eval" THEN 3 ELSE dim,
   hks |-> impl = "eval_nbr" /\ hks,
   bonnet_and_lok_correction |-> impl = "eval_nbr" /\ bonnet_and_lok_correction,
   _src |-> Origin, _dst |-> Origin]

\* self._src.x = self.s_x.data[source_pid] ... self._dst.z = ...
load_points(self, source_pid, dest_pid) ==
  [self EXCEPT
     !._src = Point(data(source.x, source_pid), data(source.y, source_pid),
                    data(source.z, source_pid)),
     !._dst = Point(data(dest.x, dest_pid), data(dest.y, dest_pid),
                    data(dest.z, dest_pid))]

\* eval_nbr: the gradient, at the mean smoothing length or (hks) the mean of
\* the gradients at the two smoothing lengths, then corrected if asked.
gradient_nbr(self, dest_pid, kernel, ha, hb) ==
  LET grada == gradient(kernel, self._dst, self._src, ha)
      gradb == gradient(kernel, self._dst, self._src, hb)
      grad == IF self.hks
              THEN Point(RMul[RAdd[grada.x, gradb.x], Half],
                         RMul[RAdd[grada.y, gradb.y], Half],
                         RMul[RAdd[grada.z, gradb.z], Half])
              ELSE gradient(kernel, self._dst, self._src, RMul[Half, RAdd[ha, hb]])
  IN  IF self.bonnet_and_lok_correction
      THEN bonnet_and_lok_gradient_correction(dest_pid, grad)
      ELSE grad

\* The accumulation, were all three components written whatever
\* num_outputs.
accumulate_all(nr, temp, grad, num_outputs) ==
  <<RAdd[nr[1], RMul[temp, grad.x]], RAdd[nr[2], RMul[temp, grad.y]],
    RAdd[nr[3], RMul[temp, grad.z]]>>

\* "nr[0] += temp*grad.x" and, for eval_nbr, the next components only if
\* num_outputs > 1 and > 2; nr[0] is the first slot.
accumulate(nr, temp, grad, num_outputs) ==
  <<RAdd[nr[1], RMul[temp, grad.x]],
    IF num_outputs > 1 THEN RAdd[nr[2], RMul[temp, grad.y]] ELSE nr[2],
    IF num_outputs > 2 THEN RAdd[nr[3], RMul[temp, grad.z]] ELSE nr[3]>>

\* pa/(rhoa*rhoa) + pb/(rhob*rhob)
pressure_term(source_pid, dest_pid) ==
  LET rhoa == data(dest.rho, dest_pid)
      rhob == data(source.rho, source_pid)
  IN  RAdd[RDiv[data(dest.p, dest_pid), RMul[rhoa, rhoa]],
           RDiv[data(source.p, source_pid), RMul[rhob, rhob]]]

\* SPHPressureGradient.eval (pressure_funcs.pyx): "temp *= mb".
SPHPressureGradient_eval(self, source_pid, dest_pid, kernel, nr) ==
  LET h == RMul[Half, RAdd[data(source.h, source_pid), data(dest.h, dest_pid)]]
      self1 == load_points(self, source_pid, dest_pid)
      temp == RMul[pressure_term(source_pid, dest_pid), data(source.m, source_pid)]
      grad == gradient(kernel, self1._dst, self1._src, h)
  IN  [self |-> self1, nr |-> accumulate(nr, temp, grad, 3),
       temp |-> temp, grad |-> grad, dot |-> R(0), piab |-> R(0)]

\* SPHPressureGradient.eval_nbr: "temp *= -mb".
SPHPressureGradient_eval_nbr(self, source_pid, dest_pid, kernel, nr) ==
  LET self1 == load_points(self, source_pid, dest_pid)
      temp == RMul[pressure_term(source_pid, dest_pid),
                   RNeg[data(source.m, source_pid)]]
      grad == gradient_nbr(self1, dest_pid, kernel, data(dest.h, dest_pid),
                           data(source.h, source_pid))
  IN  [self |-> self1, nr |-> accumulate(nr, temp, grad, self.num_outputs),
       temp |-> temp, grad |-> grad, dot |-> R(0), piab |-> R(0)]

\* vab.dot(rab): relative velocity times relative position.
relative_dot(self, source_pid, dest_pid) ==
  LET rab == Point_sub[self._dst, self._src]
      vab == Point(RSub[data(dest.u, dest_pid), data(source.u, source_pid)],
                   RSub[data(dest.v, dest_pid), data(source.v, source_pid)],
                   RSub[data(dest.w, dest_pid), data(source.w, source_pid)])
  IN  cPoint_dot[vab, rab]

\* The test "if dot < 0", were the viscous term computed for every pair.
approaching_always(dot) == TRUE

\* "if dot < 0"
approaching(dot) == RLess[dot, R(0)]

\* The viscous term of either variant, cab the sound speed it uses:
\* mu = hab*dot / (rab.norm() + eta*eta*hab*hab),
\* piab = (-alpha*cab*mu + beta*mu*mu) / rhoab.
viscous_term(self, source_pid, dest_pid, hab, dot, cab) ==
  LET rab == Point_sub[self._dst, self._src]
      rhoab == RMul[Half, RAdd[data(dest.rho, dest_pid), data(source.rho, source_pid)]]
      mu == RDiv[RMul[hab, dot],
                 RAdd[cPoint_norm[rab], RMul[RMul[self.eta, self.eta], RMul[hab, hab]]]]
  IN  RDiv[RAdd[RMul[RMul[RNeg[self.alpha], cab], mu], RMul[self.beta, RMul[mu, mu]]],
           rhoab]

\* MomentumEquation.eval (pressure_funcs.pyx); cab is self.sound_speed when
\* that is positive, else the mean of sqrt[gamma*P/rho] of the two particles.
MomentumEquation_eval(self, source_pid, dest_pid, kernel, nr) ==
  LET hab == RMul[Half, RAdd[data(source.h, source_pid), data(dest.h, dest_pid)]]
      self1 == load_points(self, source_pid, dest_pid)
      dot == relative_dot(self1, source_pid, dest_pid)
      cab == IF RLess[R(0), self.sound_speed] THEN self.sound_speed
             ELSE RMul[Half,
                    RAdd[sqrt[RDiv[RMul[self.gamma, data(dest.p, dest_pid)],
                                   data(dest.rho, dest_pid)]],
                         sqrt[RDiv[RMul[self.gamma, data(source.p, source_pid)],
                                   data(source.rho, source_pid)]]]]
      piab == IF approaching(dot)
              THEN viscous_term(self1, source_pid, dest_pid, hab, dot, cab)
              ELSE R(0)
      tmp == RMul[RAdd[pressure_term(source_pid, dest_pid), piab],
                  RNeg[data(source.m, source_pid)]]
      grad == gradient(kernel, self1._dst, self1._src, hab)
  IN  [self |-> self1, nr |-> accumulate(nr, tmp, grad, 3),
       temp |-> tmp, grad |-> grad, dot |-> dot, piab |-> piab]

\* MomentumEquation.eval_nbr; cab = 0.5 * (ca + cb), the particles' cs.
MomentumEquation_eval_nbr(self, source_pid, dest_pid, kernel, nr) ==
  LET ha == data(dest.h, dest_pid)
      hb == data(source.h, source_pid)
      hab == RMul[Half, RAdd[ha, hb]]
      self1 == load_points(self, source_pid, dest_pid)
      dot == relative_dot(self1, source_pid, dest_pid)
      cab == RMul[Half, RAdd[data(dest.cs, dest_pid), data(source.cs, source_pid)]]
      piab == IF approaching(dot)
              THEN viscous_term(self1, source_pid, dest_pid, hab, dot, cab)
              ELSE R(0)
      tmp == RMul[RAdd[pressure_term(source_pid, dest_pid), piab],
                  RNeg[data(source.m, source_pid)]]
      grad == gradient_nbr(self1, dest_pid, kernel, ha, hb)
  IN  [self |-> self1, nr |-> accumulate(nr, tmp, grad, self.num_outputs),
       temp |-> tmp, grad |-> grad, dot |-> dot, piab |-> piab]

\* The evaluation the object's class and variant give.
evaluate(self, source_pid, dest_pid, kernel, nr) ==
  IF self.id = "pgrad"
  THEN IF self.impl = "eval"
       THEN SPHPressureGradient_eval(self, source_pid, dest_pid, kernel, nr)
       ELSE SPHPressureGradient_eval_nbr(self, source_pid, dest_pid, kernel, nr)
  ELSE IF self.impl = "eval"
       THEN MomentumEquation_eval(self, source_pid, dest_pid, kernel, nr)
       ELSE MomentumEquation_eval_nbr(self, source_pid, dest_pid, kernel, nr)

\* ----------------------------------------------------- evaluator arguments
\* Calls of an evaluator the model follows on one accumulator.
MaxEvals == 2

\* alpha, beta and eta a MomentumEquation is constructed with: 1, 1, 1 and
\* 2, 3, 2 (values that keep the fractions' terms within TLC's integers).
Coefficients ==
  {[alpha |-> R(1), beta |-> R(1), eta |-> R(1)],
   [alpha |-> R(2), beta |-> R(3), eta |-> R(2)]}

\* gamma and sound_speed of the first variant: with sound_speed -1, the
\* default, the sound speed comes from gamma.
Gammas == {R(1), R(4)}
SoundSpeeds == {R(-1), R(2)}

\* The evaluators constructed: both classes, both variants, every output
\* dimension and option of the second variant.
Funcs ==
  {SPHPressureGradient_init(impl, dim, hks, bl) :
     impl \in Impls, dim \in 1..3, hks \in BOOLEAN, bl \in BOOLEAN}
    \cup {MomentumEquation_init("eval", c.alpha, c.beta, gamma, c.eta, sound_speed,
                                3, FALSE, FALSE) :
            c \in Coefficients, gamma \in Gammas, sound_speed \in SoundSpeeds}
    \cup {MomentumEquation_init("eval_nbr", c.alpha, c.beta, R(1), c.eta, R(0),
                                dim, hks, bl) :
            c \in Coefficients, dim \in 1..3, hks \in BOOLEAN, bl \in BOOLEAN}

\* The accumulator nr as the caller hands it over: zeroed, or holding sums.
Accumulators == {<<R(0), R(0), R(0)>>, <<R(1), R(-2), Q[1, 2]>>}

\* The record of the evaluations made so far: none.
NoEval == [op |-> "__init__", evals |-> 0]

\* No evaluator constructed, and so no accumulator handed over.
NoFunc == [id |-> "none", impl |-> "none"]
NoAccumulator == <<>>

\* ------------------------------------------------------- concurrent pass
\* The workers of a pass: worker w owns the destination index w and no
\* other.
Workers == dest_pids

\* The neighbor loop of a destination: every source index, in order.
neighbor_loop == [i \in 1..Cardinality(source_pids) |-> i - 1]

\* The code the workers run: eval_nbr of the one evaluator object, or one
\* work-item each of the OpenCL kernel EnergyEquationNoVisc.
PassKinds == {"eval_nbr", "cl"}

\* No pass under way.
NoPass == [kind |-> "none"]

\* ---------------------------------------------------------------- actions
\* No column outgrows the model's bound.
InBounds(s) ==
  /\ \A p \in DOMAIN s.properties : Len(s.properties[p].data) <= MaxLen
  /\ \A p \in DOMAIN s.temporary_arrays : Len(s.temporary_arrays[p].data) <= MaxLen

\* Arguments the record of the last call leaves out.
NoArgs == <<>>

\* The call op(args) ends with outcome o.
Commit(o, op, args) ==
  /\ InBounds(o.store)
  /\ properties' = o.store.properties
  /\ default_values' = o.store.default_values
  /\ temporary_arrays' = o.store.temporary_arrays
  /\ is_dirty' = o.store.is_dirty
  /\ last' = [op |-> op, args |-> args, raised |-> o.raised]
  /\ UNCHANGED <<func, accumulator, ev, pass>>

Init ==
  \E default_particle_tag \in DefaultTags :
    /\ properties = cinit(default_particle_tag).properties
    /\ default_values = cinit(default_particle_tag).default_values
    /\ temporary_arrays = cinit(default_particle_tag).temporary_arrays
    /\ is_dirty = cinit(default_particle_tag).is_dirty
    /\ last = [op |-> "__cinit__", args |-> NoArgs, raised |-> "none"]
    /\ func = NoFunc
    /\ accumulator = NoAccumulator
    /\ ev = NoEval
    /\ pass = NoPass

SetDirty ==
  \E value \in BOOLEAN : Commit(Return(set_dirty(Self, value)), "set_dirty", NoArgs)

Clear == Commit(Return(clear(Self)), "clear", NoArgs)

Initialize ==
  \E props \in InitProps : \E o \in initialize(Self, props) :
    Commit(o, "initialize",
           [tag_data |-> Has(props, "tag") /\ props["tag"].data # <<>>,
            tag |-> IF Has(props, "tag") THEN props["tag"].data ELSE <<>>])

AddTemporaryArray ==
  \E arr_name \in TempNames : \E np \in get_number_of_particles(Self) :
    Commit(add_temporary_array(Self, arr_name, np), "add_temporary_array", NoArgs)

RemoveParticles ==
  \E index_list \in IndexLists : \E np \in get_number_of_particles(Self) :
    Commit(remove_particles(Self, index_list, np), "remove_particles", NoArgs)

RemoveTaggedParticles ==
  \E tag \in TagValues : \E np \in get_number_of_particles(Self) :
    Commit(remove_tagged_particles(Self, tag, np), "remove_tagged_particles", NoArgs)

\* The lengths len(particle_props.values()[0]) can be, the first batch being
\* any of them.
first_lengths(particle_props) == {Len(particle_props[k]) : k \in DOMAIN particle_props}

AddParticles ==
  \E particle_props \in Batches :
    \E num_extra_particles \in first_lengths(particle_props) \cup {0} :
      \E np \in get_number_of_particles(Self) :
        /\ DOMAIN particle_props # {} => num_extra_particles \in first_lengths(particle_props)
        /\ Commit(add_particles(Self, particle_props, num_extra_particles, np),
                  "add_particles", NoArgs)

Extend ==
  \E num_particles \in 0..1 : \E np \in get_number_of_particles(Self) :
    Commit(extend(Self, num_particles, np), "extend", NoArgs)

Set ==
  \E props \in Batches : \E order \in Perms(DOMAIN props) :
    Commit(set(Self, props, order), "set", NoArgs)

Get == \E args \in GetArgs : Commit(get(Self, args), "get", NoArgs)

AddProperty ==
  \E prop_info \in PropInfos : \E np \in get_number_of_particles(Self) :
    Commit(add_property(Self, prop_info, np), "add_property",
           [no_data |-> no_data(prop_info),
            new_name |-> Has(prop_info, "name")
                           /\ ~already_present(Self, info_name(prop_info))])

Next ==
  \/ SetDirty
  \/ Clear
  \/ Initialize
  \/ AddTemporaryArray
  \/ RemoveParticles
  \/ RemoveTaggedParticles
  \/ AddParticles
  \/ Extend
  \/ Set
  \/ Get
  \/ AddProperty

Spec == Init /\ [][Next]_vars

\* ------------------------------------------------------- evaluator actions
\* The evaluator is of the variant and class, and its accumulator has room
\* for one more evaluation.
Ready(impl, id) == func.impl = impl /\ func.id = id /\ ev.evals < MaxEvals

\* One evaluation for a (source, destination) pair has ended with outcome o.
Evaluated(o, source_pid, dest_pid, kernel) ==
  /\ func' = o.self
  /\ accumulator' = o.nr
  /\ ev' = [op |-> func.impl, source_pid |-> source_pid, dest_pid |-> dest_pid,
            kernel |-> kernel, dot |-> o.dot, piab |-> o.piab,
            grad |-> o.grad, temp |-> o.temp, evals |-> ev.evals + 1]
  /\ UNCHANGED <<properties, default_values, temporary_arrays, is_dirty, last, pass>>

SPHPressureGradientEval ==
  /\ Ready("eval", "pgrad")
  /\ \E source_pid \in source_pids : \E dest_pid \in dest_pids : \E kernel \in Kernels :
       \E o \in {SPHPressureGradient_eval(func, source_pid, dest_pid, kernel, accumulator)} :
         Evaluated(o, source_pid, dest_pid, kernel)

SPHPressureGradientEvalNbr ==
  /\ Ready("eval_nbr", "pgrad")
  /\ \E source_pid \in source_pids : \E dest_pid \in dest_pids : \E kernel \in Kernels :
       \E o \in {SPHPressureGradient_eval_nbr(func, source_pid, dest_pid, kernel, accumulator)} :
         Evaluated(o, source_pid, dest_pid, kernel)

MomentumEquationEval ==
  /\ Ready("eval", "momentumequation")
  /\ \E source_pid \in source_pids : \E dest_pid \in dest_pids : \E kernel \in Kernels :
       \E o \in {MomentumEquation_eval(func, source_pid, dest_pid, kernel, accumulator)} :
         Evaluated(o, source_pid, dest_pid, kernel)

MomentumEquationEvalNbr ==
  /\ Ready("eval_nbr", "momentumequation")
  /\ \E source_pid \in source_pids : \E dest_pid \in dest_pids : \E kernel \in Kernels :
       \E o \in {MomentumEquation_eval_nbr(func, source_pid, dest_pid, kernel, accumulator)} :
         Evaluated(o, source_pid, dest_pid, kernel)

\* An evaluator is constructed over the two particle arrays and handed an
\* accumulator.
EvalInit ==
  /\ func \in Funcs
  /\ accumulator \in Accumulators
  /\ ev = NoEval
  /\ pass = NoPass
  /\ \E default_particle_tag \in DefaultTags :
       /\ properties = cinit(default_particle_tag).properties
       /\ default_values = cinit(default_particle_tag).default_values
       /\ temporary_arrays = cinit(default_particle_tag).temporary_arrays
       /\ is_dirty = cinit(default_particle_tag).is_dirty
  /\ last = [op |-> "__cinit__", args |-> NoArgs, raised |-> "none"]

EvalNext ==
  \/ SPHPressureGradientEval
  \/ SPHPressureGradientEvalNbr
  \/ MomentumEquationEval
  \/ MomentumEquationEvalNbr

EvalSpec == EvalInit /\ [][EvalNext]_vars

\* ----------------------------------------------------------------- claims
\* The lengths of the columns of a dict of columns.
Lengths(columns) == {Len(columns[p].data) : p \in DOMAIN columns}

\* The prop_info names a property that is not registered in this state.
NewName(prop_info) ==
  Has(prop_info, "name") /\ ~already_present(Self, info_name(prop_info))

\* C1: after a successful mutating call every property column has the same
\* length as every other property column.
C1_EqualColumnLengths ==
  last.raised = "none" => Cardinality(Lengths(properties)) = 1

\* C2: a call to initialize, add_property, add_particles, set or
\* remove_particles that raises leaves the registered names, the columns, the
\* temporary arrays and the recorded defaults as they were before the call.
C2_FailedCallChangesNothing ==
  [][(/\ last'.raised # "none"
      /\ last'.op \in {"initialize", "add_property", "add_particles", "set",
                       "remove_particles"})
       => /\ properties' = properties
          /\ default_values' = default_values
          /\ temporary_arrays' = temporary_arrays]_vars

\* C3: no name is registered both as a property and as a temporary array.
C3_DisjointNamespaces ==
  DOMAIN properties \cap DOMAIN temporary_arrays = {}

\* C4: 'tag' is a registered property, held in an integer column, in every
\* reachable state.
C4_TagRegistered ==
  /\ "tag" \in DOMAIN properties
  /\ properties["tag"].type = "long"

\* C4, witness: the state right after clear() on a store that had registered
\* another property before.
C4_AfterClear ==
  /\ last.op = "clear"
  /\ "x" \in DOMAIN default_values
  /\ DOMAIN properties = {"tag"}
  /\ properties["tag"].type = "long"

\* C5: add_property for a new name with non-empty data on a store with
\* N = 0 succeeds, with or without a type: every property registered before
\* has len(data) slots holding its own recorded default (as its column stores
\* it), and the new property holds the data (as its column stores them).
C5_AddToEmptyAdoptsData ==
  \A prop_info \in PropInfos : \A np \in get_number_of_particles(Self) :
    (NewName(prop_info) /\ ~no_data(prop_info) /\ np = 0) =>
      LET o == add_property(Self, prop_info, np)
          n == Len(info_data(prop_info))
          after == o.store.properties
      IN  /\ o.raised = "none"
          /\ DOMAIN after = DOMAIN properties \cup {info_name(prop_info)}
          /\ \A p \in DOMAIN properties :
               after[p].data = const(n, Cast(properties[p].type, default_values[p]))
          /\ after[info_name(prop_info)].data =
               asarray(info_data(prop_info), after[info_name(prop_info)].type)
          /\ get_number_of_particles(o.store) = {n}

\* C6, as stated: add_property with non-empty data whose length differs from
\* a nonzero particle count raises the size-mismatch error and changes nothing.
C6_SizeMismatchRejected ==
  \A prop_info \in PropInfos : \A np \in get_number_of_particles(Self) :
    (~no_data(prop_info) /\ np # 0 /\ Len(info_data(prop_info)) # np) =>
      LET o == add_property(Self, prop_info, np)
      IN  /\ o.raised = "ValueError: Array sizes incompatible"
          /\ o.store = Self

\* C6, amended: add_property for a name that is given and not yet a registered
\* property, with non-empty data whose length differs from a nonzero particle
\* count, raises the size-mismatch error and changes nothing.
C6_NewPropertySizeMismatchRejected ==
  \A prop_info \in PropInfos : \A np \in get_number_of_particles(Self) :
    (NewName(prop_info) /\ ~no_data(prop_info) /\ np # 0
       /\ Len(info_data(prop_info)) # np) =>
      LET o == add_property(Self, prop_info, np)
      IN  /\ o.raised = "ValueError: Array sizes incompatible"
          /\ o.store = Self

\* C6, witness: add_property has just raised the size-mismatch error on a
\* store that holds particles.
C6_MismatchRaised ==
  /\ last.op = "add_property"
  /\ last.raised = "ValueError: Array sizes incompatible"
  /\ last.args.new_name /\ ~last.args.no_data
  /\ 0 \notin get_number_of_particles(Self)

\* C7, as stated: add_property without data registers a column of length N
\* whose every entry equals the supplied default, 0 when none is given.
C7_NoDataColumnHoldsDefault ==
  \A prop_info \in PropInfos : \A np \in get_number_of_particles(Self) :
    (Has(prop_info, "name") /\ no_data(prop_info)) =>
      LET o == add_property(Self, prop_info, np)
      IN  /\ o.raised = "none"
          /\ info_name(prop_info) \in DOMAIN o.store.properties
          /\ o.store.properties[info_name(prop_info)].data =
               const(np, info_default(prop_info))

\* C7, amended: add_property without data, for a name not yet a registered
\* property, registers a column of length N whose every entry is the supplied
\* default (0 when none is given) converted to the column's element type: a
\* long or int column holds it truncated towards zero.
C7_NoDataColumnHoldsCastDefault ==
  \A prop_info \in PropInfos : \A np \in get_number_of_particles(Self) :
    (NewName(prop_info) /\ no_data(prop_info)) =>
      LET o == add_property(Self, prop_info, np)
          name == info_name(prop_info)
      IN  /\ o.raised = "none"
          /\ DOMAIN o.store.properties = DOMAIN properties \cup {name}
          /\ o.store.properties[name].data =
               const(np, Cast(o.store.properties[name].type, info_default(prop_info)))
          /\ o.store.default_values[name] = info_default(prop_info)

\* C7, witness: add_property without data has just registered 'y', the one
\* property besides 'tag', as a long column on a store that holds particles;
\* its recorded default is 1.5 and every entry is 1.
C7_LongColumnOfDefaults ==
  /\ last.op = "add_property" /\ last.raised = "none"
  /\ last.args.new_name /\ last.args.no_data
  /\ DOMAIN properties = {"tag", "y"}
  /\ properties["y"].type = "long"
  /\ default_values["y"] = 3
  /\ Len(properties["y"].data) = MaxLen
  /\ properties["y"].data = const(MaxLen, 2)

\* C8: remove_particles with more indices than there are particles raises
\* and leaves every property column, every temporary column and the dirty
\* flag as they were.
C8_TooManyIndicesRejected ==
  \A index_list \in IndexLists : \A np \in get_number_of_particles(Self) :
    Len(index_list) > np =>
      LET o == remove_particles(Self, index_list, np)
      IN  /\ o.raised # "none"
          /\ o.store = Self

\* C8, witness: remove_particles has just raised on a store that holds
\* particles and whose dirty flag is still off.
C8_RejectedWhileClean ==
  /\ last.op = "remove_particles"
  /\ last.raised = "ValueError: Number of particles to be removed is greater"
  /\ ~is_dirty
  /\ 0 \notin get_number_of_particles(Self)

\* The index list holds distinct indices of particles of a store of np.
DistinctInRange(index_list, np) ==
  /\ \A i \in DOMAIN index_list : index_list[i] < np
  /\ \A i, j \in DOMAIN index_list : i # j => index_list[i] # index_list[j]

\* Every column of cols_after holds the surviving slots of the same column
\* of cols_before, the one map 'from' saying which slot went where.
SameSurvivors(cols_before, cols_after, from) ==
  \A p \in DOMAIN cols_before :
    /\ Len(cols_after[p].data) = Len(from)
    /\ \A j \in DOMAIN from :
         /\ from[j] \in DOMAIN cols_before[p].data
         /\ cols_after[p].data[j] = cols_before[p].data[from[j]]

\* C9: remove_particles with k distinct indices of particles leaves every
\* property column and every temporary column with N - k slots: the slots
\* that were not removed, the same ones in every column, in some order.
C9_RemoveKeepsSurvivors ==
  \A index_list \in IndexLists : \A np \in get_number_of_particles(Self) :
    DistinctInRange(index_list, np) =>
      LET o == remove_particles(Self, index_list, np)
          kept == (1..np) \ {index_list[i] + 1 : i \in DOMAIN index_list}
      IN  /\ o.raised = "none"
          /\ \E from \in [1..Cardinality(kept) -> kept] :
               /\ \A i, j \in DOMAIN from : i # j => from[i] # from[j]
               /\ SameSurvivors(properties, o.store.properties, from)
               /\ SameSurvivors(temporary_arrays, o.store.temporary_arrays, from)

\* C10: a remove_tagged_particles call that removes no particle leaves the
\* dirty flag as it was.
C10_DirtyOnlyIfRemoved ==
  [][(/\ last'.op = "remove_tagged_particles"
      /\ last'.raised = "none"
      /\ Len(properties'["tag"].data) = Len(properties["tag"].data))
       => is_dirty' = is_dirty]_vars

\* The values held in the slots of an array.
Range(seq) == {seq[i] : i \in DOMAIN seq}

\* C11: on a store none of whose particles carries the default tag, a
\* successful add_particles of a batch without 'tag' followed by
\* remove_tagged_particles(default tag) succeeds, leaves every property
\* column with the length it had before the two calls, and leaves no particle
\* carrying the default tag.
C11_AddThenRemoveByTagRestoresCount ==
  \A particle_props \in Batches : \A num_extra_particles \in first_lengths(particle_props) :
    \A np \in get_number_of_particles(Self) :
      LET added == add_particles(Self, particle_props, num_extra_particles, np)
      IN  (/\ "tag" \notin DOMAIN particle_props
           /\ default_values["tag"] \notin Range(properties["tag"].data)
           /\ added.raised = "none") =>
            \A np1 \in get_number_of_particles(added.store) :
              LET o == remove_tagged_particles(added.store, default_values["tag"], np1)
              IN  /\ o.raised = "none"
                  /\ \A p \in DOMAIN properties :
                       Len(o.store.properties[p].data) = Len(properties[p].data)
                  /\ default_values["tag"] \notin Range(o.store.properties["tag"].data)

\* Some name of the collection is registered neither as a property nor as a
\* temporary array.
NamesUnknown(names) ==
  \E n \in names : n \notin DOMAIN properties /\ n \notin DOMAIN temporary_arrays

\* C12: get, set and add_particles called with a name that is registered
\* neither as a property nor as a temporary array raise AttributeError and
\* leave the store as it was, also when other names of the call are registered.
C12_UnknownNameRejected ==
  /\ \A props \in Batches : NamesUnknown(DOMAIN props) =>
       /\ \A order \in Perms(DOMAIN props) :
            set(Self, props, order) = Raise(Self, "AttributeError")
       /\ \A num_extra_particles \in first_lengths(props) :
            \A np \in get_number_of_particles(Self) :
              add_particles(Self, props, num_extra_particles, np)
                = Raise(Self, "AttributeError")
  /\ \A args \in GetArgs : NamesUnknown(Range(args)) =>
       get(Self, args) = Raise(Self, "AttributeError")

\* C12, witness: add_particles has just raised AttributeError on a store
\* that holds particles and has 'x' registered: the call named 'x' next to a
\* name that is not registered.
C12_MixedNamesRaised ==
  /\ last.op = "add_particles"
  /\ last.raised = "AttributeError"
  /\ "x" \in DOMAIN properties
  /\ Len(properties["x"].data) > 0

\* C13: add_particles raises when the batches of one call, all for registered
\* names, do not all have the same length.
C13_UnequalBatchesRejected ==
  \A particle_props \in Batches : \A num_extra_particles \in first_lengths(particle_props) :
    \A np \in get_number_of_particles(Self) :
      (/\ ~NamesUnknown(DOMAIN particle_props)
       /\ Cardinality(first_lengths(particle_props)) > 1) =>
        add_particles(Self, particle_props, num_extra_particles, np).raised # "none"

\* The column 'after' is the column 'before' with the values appended.
Appended(before, after, values) ==
  /\ Len(after.data) = Len(before.data) + Len(values)
  /\ \A i \in DOMAIN after.data :
       after.data[i] = IF i <= Len(before.data) THEN before.data[i]
                       ELSE values[i - Len(before.data)]

\* The column 'after' is the column 'before' with slots added at its end, every
\* one of them holding the value.
Backfilled(before, after, value) ==
  /\ Len(after.data) >= Len(before.data)
  /\ \A i \in DOMAIN after.data :
       after.data[i] = IF i <= Len(before.data) THEN before.data[i] ELSE value

\* C14: a successful add_particles appends the supplied values (as the column
\* stores them) to every property it names and gives every other property new
\* slots holding that property's recorded default; extend(count) gives every
\* property count new slots holding its recorded default; the slots there
\* were keep their values.
C14_NewSlotsHoldDefault ==
  /\ \A particle_props \in Batches : \A num_extra_particles \in first_lengths(particle_props) :
       \A np \in get_number_of_particles(Self) :
         LET o == add_particles(Self, particle_props, num_extra_particles, np)
         IN  o.raised = "none" =>
               \A p \in DOMAIN properties :
                 IF p \in DOMAIN particle_props
                 THEN Appended(properties[p], o.store.properties[p],
                               asarray(particle_props[p], properties[p].type))
                 ELSE Backfilled(properties[p], o.store.properties[p], default_values[p])
  /\ \A num_particles \in 0..1 : \A np \in get_number_of_particles(Self) :
       LET o == extend(Self, num_particles, np)
       IN  \A p \in DOMAIN properties :
             Appended(properties[p], o.store.properties[p],
                      const(num_particles, default_values[p]))

\* Every column of 'after' is the column of 'before' as it was, or holds the
\* whole array supplied for it, of the column's own length.
WhollyAssigned(before, after, props) ==
  \A p \in DOMAIN before :
    \/ after[p] = before[p]
    \/ /\ p \in DOMAIN props
       /\ Len(props[p]) = Len(before[p].data)
       /\ after[p].data = asarray(props[p], before[p].type)

\* C15: set, called with registered names and an array whose length differs
\* from the particle count, raises; and no call of set truncates, extends or
\* partially assigns a column.
C15_SetRejectsWrongLength ==
  \A props \in Batches : \A order \in Perms(DOMAIN props) :
    LET o == set(Self, props, order)
    IN  /\ WhollyAssigned(properties, o.store.properties, props)
        /\ WhollyAssigned(temporary_arrays, o.store.temporary_arrays, props)
        /\ \A np \in get_number_of_particles(Self) :
             (/\ ~NamesUnknown(DOMAIN props)
              /\ \E p \in DOMAIN props : Len(props[p]) # np) => o.raised # "none"

C18_InitializeTag ==
  \A props \in InitProps : \A o \in initialize(Self, props) :
    o.raised = "none" =>
      LET after == o.store.properties
          n == Len(after["tag"].data)
      IN  IF Has(props, "tag")
          THEN /\ after["tag"].data = asarray(props["tag"].data, "long")
               /\ get_number_of_particles(o.store) = {Len(props["tag"].data)}
          ELSE get_number_of_particles(o.store) # {0} =>
                 /\ get_number_of_particles(o.store) = {n}
                 /\ after["tag"].data = const(n, default_values["tag"])

\* C18, amended: a successful initialize with a non-empty array of tags
\* leaves the 'tag' column holding that array (as integers) and every column
\* of its length; without a 'tag' entry, or with an empty array of tags, a
\* successful initialize that leaves particles leaves a 'tag' column of their
\* number, every entry the default tag.
C18_InitializeTagData ==
  last.op = "initialize" /\ last.raised = "none" =>
    LET n == Len(properties["tag"].data)
    IN  IF last.args.tag_data
        THEN /\ properties["tag"].data = asarray(last.args.tag, "long")
             /\ get_number_of_particles(Self) = {Len(last.args.tag)}
        ELSE get_number_of_particles(Self) # {0} =>
               /\ get_number_of_particles(Self) = {n}
               /\ properties["tag"].data = const(n, default_values["tag"])

\* C18, witness: initialize without data for 'tag' has just succeeded and
\* left a particle, a property 'x' and a 'tag' column of default tags.
C18_TagBackfilled ==
  /\ last.op = "initialize" /\ last.raised = "none"
  /\ ~last.args.tag_data
  /\ "x" \in DOMAIN properties
  /\ Len(properties["x"].data) > 0
  /\ properties["tag"].data = const(Len(properties["x"].data), default_values["tag"])

\* The positions of the pair, read from the two arrays.
src_pos(source_pid) ==
  Point(data(source.x, source_pid), data(source.y, source_pid), data(source.z, source_pid))
dst_pos(dest_pid) ==
  Point(data(dest.x, dest_pid), data(dest.y, dest_pid), data(dest.z, dest_pid))

\* -m_src * (P_dst/rho_dst^2 + P_src/rho_src^2)
PressureCoeff(source_pid, dest_pid) ==
  RMul[RNeg[data(source.m, source_pid)], pressure_term(source_pid, dest_pid)]

\* The accumulator with coeff * grad added to it, in its first dim components.
Added(acc, coeff, grad, dim) ==
  <<RAdd[acc[1], RMul[coeff, grad.x]],
    IF dim > 1 THEN RAdd[acc[2], RMul[coeff, grad.y]] ELSE acc[2],
    IF dim > 2 THEN RAdd[acc[3], RMul[coeff, grad.z]] ELSE acc[3]>>

\* C19: every evaluation of a pressure-gradient evaluator leaves the
\* accumulator at its previous value plus coeff * kernelGradient(dst, src, h),
\* with h = 0.5 (h_src + h_dst) and
\* coeff = -m_src * (P_dst/rho_dst^2 + P_src/rho_src^2).
C19_PressureGradientAdds ==
  func.id = "pgrad" =>
    \A source_pid \in source_pids : \A dest_pid \in dest_pids : \A kernel \in Kernels :
      LET h == RMul[Half, RAdd[data(source.h, source_pid), data(dest.h, dest_pid)]]
      IN  evaluate(func, source_pid, dest_pid, kernel, accumulator).nr =
            Added(accumulator, PressureCoeff(source_pid, dest_pid),
                  gradient(kernel, dst_pos(dest_pid), src_pos(source_pid), h), 3)

\* The dot product of relative velocity and relative position of the pair,
\* read from the two arrays.
PairDot(source_pid, dest_pid) ==
  cPoint_dot[Point(RSub[data(dest.u, dest_pid), data(source.u, source_pid)],
                   RSub[data(dest.v, dest_pid), data(source.v, source_pid)],
                   RSub[data(dest.w, dest_pid), data(source.w, source_pid)]),
             Point_sub[dst_pos(dest_pid), src_pos(source_pid)]]

\* C20: for a pair whose relative velocity times relative position is >= 0 a
\* momentum evaluation computes the viscous term 0, whatever alpha, beta and
\* eta, and adds the pure pressure term
\* -m_src * (P_dst/rho_dst^2 + P_src/rho_src^2) times the gradient to the
\* accumulator's components.
C20_RecedingPairNoViscosity ==
  func.id = "momentumequation" =>
    \A source_pid \in source_pids : \A dest_pid \in dest_pids : \A kernel \in Kernels :
      ~RLess[PairDot(source_pid, dest_pid), R(0)] =>
        LET o == evaluate(func, source_pid, dest_pid, kernel, accumulator)
        IN  /\ o.piab = R(0)
            /\ o.temp = PressureCoeff(source_pid, dest_pid)
            /\ o.nr = Added(accumulator, PressureCoeff(source_pid, dest_pid), o.grad,
                            func.num_outputs)

\* C20, witness: a momentum evaluator with alpha 2 and beta 3 has just
\* evaluated a pair that moves apart: the viscous term is 0 and the
\* coefficient it added with is the pressure term, which is not 0.
C20_RecedingPairEvaluated ==
  /\ func.id = "momentumequation"
  /\ func.alpha = R(2) /\ func.beta = R(3)
  /\ ev.evals > 0
  /\ RLess[R(0), ev.dot]
  /\ ev.piab = R(0)
  /\ ev.temp = PressureCoeff(ev.source_pid, ev.dest_pid)
  /\ ev.temp # R(0)


\* C21: an evaluation by an evaluator with output dimension d leaves the
\* accumulator's components d, d+1, ... (counted from 0) as they were, for
\* every pair and kernel.
C21_ComponentsBeyondDimensionKept ==
  \A source_pid \in source_pids : \A dest_pid \in dest_pids : \A kernel \in Kernels :
    LET o == evaluate(func, source_pid, dest_pid, kernel, accumulator)
    IN  \A i \in 1..3 : i > func.num_outputs => o.nr[i] = accumulator[i]

\* C21, witness: an evaluator of dimension 1 has just evaluated a pair whose
\* coefficient and gradient are not 0 in the second component, and the
\* accumulator's second and third components still hold the values they
\* started with, which are not 0.
C21_OneDimensionalEvaluated ==
  /\ func.num_outputs = 1
  /\ ev.evals > 0
  /\ ev.temp # R(0)
  /\ ev.grad.y # R(0)
  /\ accumulator[2] = R(-2)
  /\ accumulator[3] = Q[1, 2]


\* ------------------------------------------------- concurrent pass: steps
\* A pass starts: every worker at the head of its neighbor loop, the
\* outputs zero, nothing written yet.
StartPass(kind, kernel) ==
  [kind |-> kind, kernel |-> kernel,
   pc |-> [w \in Workers |-> IF kind = "cl" THEN "cl" ELSE "src"],
   nbr |-> [w \in Workers |-> 1],
   out |-> [d \in dest_pids |-> IF kind = "cl" THEN R(0) ELSE <<R(0), R(0), R(0)>>],
   written |-> {}]

\* Worker w has written the shared location.
Wrote(w, location) == pass.written \cup {[location |-> location, worker |-> w]}

\* The source index worker w's neighbor loop is at.
source_of(w) == neighbor_loop[pass.nbr[w]]

\* The place of worker w after an iteration: the next neighbor, or done.
NextIteration(w, first) ==
  IF pass.nbr[w] < Len(neighbor_loop)
  THEN [pass EXCEPT !.pc[w] = first, !.nbr[w] = @ + 1]
  ELSE [pass EXCEPT !.pc[w] = "done"]

\* eval_nbr lines 59-61: self._src.x, .y, .z = s_x, s_y, s_z [source_pid].
\* self is the evaluator object all workers call.
LoadSrc(w) ==
  /\ pass.pc[w] = "src"
  /\ func' = [func EXCEPT !._src = Point(data(source.x, source_of(w)),
                                         data(source.y, source_of(w)),
                                         data(source.z, source_of(w)))]
  /\ pass' = [pass EXCEPT !.pc[w] = "dst", !.written = Wrote(w, <<"self", "_src">>)]
  /\ UNCHANGED <<properties, default_values, temporary_arrays, is_dirty, last,
                 accumulator, ev>>

\* eval_nbr lines 63-65: self._dst.x, .y, .z = d_x, d_y, d_z [dest_pid].
LoadDst(w) ==
  /\ pass.pc[w] = "dst"
  /\ func' = [func EXCEPT !._dst = Point(data(dest.x, w), data(dest.y, w),
                                         data(dest.z, w))]
  /\ pass' = [pass EXCEPT !.pc[w] = "add", !.written = Wrote(w, <<"self", "_dst">>)]
  /\ UNCHANGED <<properties, default_values, temporary_arrays, is_dirty, last,
                 accumulator, ev>>

\* eval_nbr lines 67-91: the coefficient, the gradient between the points
\* self._dst and self._src as they are now, and nr += temp*grad on the
\* worker's destination.
AddContribution(w) ==
  /\ pass.pc[w] = "add"
  /\ LET temp == RMul[pressure_term(source_of(w), w), RNeg[data(source.m, source_of(w))]]
         grad == gradient_nbr(func, w, pass.kernel, data(dest.h, w),
                              data(source.h, source_of(w)))
         nr == accumulate(pass.out[w], temp, grad, func.num_outputs)
     IN  pass' = [NextIteration(w, "src") EXCEPT !.out[w] = nr,
                                                 !.written = Wrote(w, <<"nr", w>>)]
  /\ UNCHANGED <<properties, default_values, temporary_arrays, is_dirty, last,
                 func, accumulator, ev>>

\* EnergyEquationNoVisc, one iteration of the neighbor loop:
\* temp = 0.5F*mb*( Pa/(rhoa*rhoa) + Pb/(rhob*rhob) ), the kernel gradient
\* between ra and rb, dot(va-vb, grad).  ra, rb, va, vb, grad and temp are
\* private to the work-item.
energy_term(src_id, dest_id, kernel) ==
  LET ra == Point(data(dest.x, dest_id), data(dest.y, dest_id), data(dest.z, dest_id))
      rb == Point(data(source.x, src_id), data(source.y, src_id), data(source.z, src_id))
      vab == Point(RSub[data(dest.u, dest_id), data(source.u, src_id)],
                   RSub[data(dest.v, dest_id), data(source.v, src_id)],
                   RSub[data(dest.w, dest_id), data(source.w, src_id)])
      temp == RMul[RMul[Half, data(source.m, src_id)], pressure_term(src_id, dest_id)]
      grad == gradient(kernel, ra, rb,
                       RMul[Half, RAdd[data(dest.h, dest_id), data(source.h, src_id)]])
  IN  RMul[temp, cPoint_dot[vab, grad]]

\* "tmpx[dest_id] += temp * ( dot(va-vb, grad) )"
ClAddContribution(w) ==
  /\ pass.pc[w] = "cl"
  /\ pass' = [NextIteration(w, "cl") EXCEPT
                !.out[w] = RAdd[@, energy_term(source_of(w), w, pass.kernel)],
                !.written = Wrote(w, <<"tmpx", w>>)]
  /\ UNCHANGED <<properties, default_values, temporary_arrays, is_dirty, last,
                 func, accumulator, ev>>

\* The evaluator objects of a pass: the pressure-gradient evaluators with
\* eval_nbr, and for the OpenCL kernel, which touches no host object, one.
PassInit ==
  /\ \E kind \in PassKinds : \E kernel \in Kernels : pass = StartPass(kind, kernel)
  /\ func \in {f \in Funcs : /\ f.id = "pgrad" /\ f.impl = "eval_nbr"
                              /\ (pass.kind = "cl" =>
                                    f = SPHPressureGradient_init("eval_nbr", 3, FALSE, FALSE))}
  /\ accumulator = <<R(0), R(0), R(0)>>
  /\ ev = NoEval
  /\ \E default_particle_tag \in DefaultTags :
       /\ properties = cinit(default_particle_tag).properties
       /\ default_values = cinit(default_particle_tag).default_values
       /\ temporary_arrays = cinit(default_particle_tag).temporary_arrays
       /\ is_dirty = cinit(default_particle_tag).is_dirty
  /\ last = [op |-> "__cinit__", args |-> NoArgs, raised |-> "none"]

PassNext ==
  \/ \E w \in Workers : LoadSrc(w)
  \/ \E w \in Workers : LoadDst(w)
  \/ \E w \in Workers : AddContribution(w)
  \/ \E w \in Workers : ClAddContribution(w)

PassSpec == PassInit /\ [][PassNext]_vars

\* The outputs of a sequential pass over destination d: the neighbor loop
\* run from start to end by one caller.
SequentialPass(self, kind, kernel, d) ==
  LET f[n \in 0..Len(neighbor_loop)] ==
        IF n = 0
        THEN IF kind = "cl" THEN R(0) ELSE <<R(0), R(0), R(0)>>
        ELSE IF kind = "cl"
             THEN RAdd[f[n - 1], energy_term(neighbor_loop[n], d, kernel)]
             ELSE evaluate(self, neighbor_loop[n], d, kernel, f[n - 1]).nr
  IN  f[Len(neighbor_loop)]

\* C22: in a pass of several workers with one evaluator, each worker owning
\* one destination, no shared location is written by two workers, and when
\* all workers are done every destination's output is that of a sequential
\* pass.
C22_DisjointWritesSequentialResult ==
  /\ \A a, b \in pass.written : a.location = b.location => a.worker = b.worker
  /\ (\A w \in Workers : pass.pc[w] = "done") =>
       \A d \in dest_pids : pass.out[d] = SequentialPass(func, pass.kind, pass.kernel, d)


\* The sound speed c_ab the evaluator uses for a pair: the second variant
\* the mean of the particles' cs, the first its sound_speed if positive,
\* else the mean of sqrt[gamma*P/rho].
SoundSpeed(self, source_pid, dest_pid) ==
  IF self.impl = "eval_nbr"
  THEN RMul[Half, RAdd[data(dest.cs, dest_pid), data(source.cs, source_pid)]]
  ELSE IF RLess[R(0), self.sound_speed] THEN self.sound_speed
  ELSE RMul[Half,
         RAdd[sqrt[RDiv[RMul[self.gamma, data(dest.p, dest_pid)], data(dest.rho, dest_pid)]],
              sqrt[RDiv[RMul[self.gamma, data(source.p, source_pid)],
                        data(source.rho, source_pid)]]]]

\* mu = h_ab * dot / (|r_ab|^2 + eta^2 * h_ab^2) and
\* Pi_ab = (-alpha * c_ab * mu + beta * mu^2) / (0.5 (rho_dst + rho_src)).
ViscosityOf(alpha, beta, eta, c_ab, source_pid, dest_pid) ==
  LET h_ab == RMul[Half, RAdd[data(source.h, source_pid), data(dest.h, dest_pid)]]
      r_ab == Point_sub[dst_pos(dest_pid), src_pos(source_pid)]
      mu == RDiv[RMul[h_ab, PairDot(source_pid, dest_pid)],
                 RAdd[cPoint_dot[r_ab, r_ab], RMul[RMul[eta, eta], RMul[h_ab, h_ab]]]]
  IN  RDiv[RAdd[RMul[RMul[RNeg[alpha], c_ab], mu], RMul[beta, RMul[mu, mu]]],
           RMul[Half, RAdd[data(dest.rho, dest_pid), data(source.rho, source_pid)]]]

\* C23: for a pair with dot < 0 a momentum evaluation computes Pi_ab from
\* mu = h_ab * dot / (|r_ab|^2 + eta^2 * h_ab^2) with the alpha, beta and
\* eta its constructor was called with.
C23_ViscosityFromConstructorValues ==
  func.id = "momentumequation" =>
    \A source_pid \in source_pids : \A dest_pid \in dest_pids : \A kernel \in Kernels :
      RLess[PairDot(source_pid, dest_pid), R(0)] =>
        evaluate(func, source_pid, dest_pid, kernel, accumulator).piab =
          ViscosityOf(func.kwargs.alpha, func.kwargs.beta, func.kwargs.eta,
                      SoundSpeed(func, source_pid, dest_pid), source_pid, dest_pid)


\* C24: every temporary array has as many slots as the store has particles.
C24_TemporariesHaveParticleCount ==
  \A t \in DOMAIN temporary_arrays :
    \A np \in get_number_of_particles(Self) : Len(temporary_arrays[t].data) = np

====
